---------------------------- MODULE Spec2Model ----------------------------
(***************************************************************************)
(* A model of the component runtime of harp (src/Component.py): the        *)
(* register store, the API-permission table, the message queue, the        *)
(* connection graph and the dispatch of a Message onto an operation.       *)
(*                                                                         *)
(* Python values are records [type, val]; a call of a method is an         *)
(* operator from the state before the call to an outcome                   *)
(*   [s |-> state after, ret |-> value, raised |-> BOOLEAN]                *)
(* where raised = TRUE means the call ended with an uncaught exception     *)
(* (ret is then the exception) instead of returning ret.                   *)
(***************************************************************************)
EXTENDS Integers, Sequences, FiniteSets, TLC

VARIABLES
    registers,      \* object -> (key -> value)            self.registers
    accessors,      \* object -> (key -> predicate)        self.accessors
    mutators,       \* object -> (key -> predicate)        self.mutators
    immutables,     \* object -> (key -> flag)             self.immutables
    messages,       \* object -> sequence of Message       self.messages
    api_permissions,        \* object -> (operation name -> predicate)
    api_mutable,            \* object -> predicate
    connection_criteria,    \* object -> predicate of (name, context)
    disconnection_criteria, \* object -> predicate of (name, context)
    is_connection_criteria_mutable,     \* object -> BOOLEAN
    is_disconnection_criteria_mutable,  \* object -> BOOLEAN
    connected_entities,     \* object -> sequence of names
    names,          \* object -> its __name__
    entities,       \* the class-level directory: name -> object
    call,           \* the last call made: operation, receiver, arguments,
                    \* the state before it and its outcome
    pushed,         \* Message identity -> times it was pushed by Produce
    returned        \* Message identity -> times Consume got it back

vars == <<registers, accessors, mutators, immutables, messages,
          api_permissions, api_mutable, connection_criteria,
          disconnection_criteria, is_connection_criteria_mutable,
          is_disconnection_criteria_mutable, connected_entities, names,
          entities, call, pushed, returned>>

-----------------------------------------------------------------------------
(* Python values *)

None == [type |-> "NoneType", val |-> "None"]
True == [type |-> "bool", val |-> "True"]
False == [type |-> "bool", val |-> "False"]
Str(s) == [type |-> "str", val |-> s]
Int0 == [type |-> "int", val |-> "0"]
Int42 == [type |-> "int", val |-> "42"]
Function(name) == [type |-> "function", val |-> name]
Bool(b) == IF b THEN True ELSE False

\* Python's truth value of an object, as `if not arg` tests it.
Truthy(v) ==
    CASE v.type = "NoneType" -> FALSE
      [] v.type = "bool" -> v.val = "True"
      [] v.type = "int" -> v.val # "0"
      [] v.type = "str" -> v.val # ""
      [] OTHER -> TRUE

\* The exceptions the code builds; msg is the first argument it gives them.
Error(type, msg) == [type |-> type, val |-> msg]
KeyError(msg) == Error("KeyError", msg)
PermissionError(msg) == Error("PermissionError", msg)
TypeError(msg) == Error("TypeError", msg)
ConnectionError(msg) == Error("ConnectionError", msg)
AttributeError(msg) == Error("AttributeError", msg)
BlockedComponentError(msg) == Error("BlockedComponentError", msg)
\* SyntaxError("Failure to match arguments properly", self, arg_name, message)
SyntaxError(msg, arg_name) ==
    [type |-> "SyntaxError", val |-> msg, arg_name |-> arg_name]

Return(s, v) == [s |-> s, ret |-> v, raised |-> FALSE]
Raise(s, e) == [s |-> s, ret |-> e, raised |-> TRUE]

\* The functions the embedder supplies as predicates, criteria and values.
\*   alwaysTrue  = lambda context: True       alwaysFalse = lambda context: False
\*   isAdmin     = lambda context: context == "admin"
\*   critTrue    = lambda s, context: True    critFalse   = lambda s, context: False
\*   echo        = lambda content: content
\*   critAdmin   = lambda s, context: context == "admin"
Arity(f) == IF f \in {"critTrue", "critFalse", "critAdmin"} THEN 2 ELSE 1

Apply(f, args) ==
    CASE f = "alwaysTrue" -> True
      [] f = "alwaysFalse" -> False
      [] f = "isAdmin" -> Bool(args[1] = Str("admin"))
      [] f = "critTrue" -> True
      [] f = "critFalse" -> False
      [] f = "critAdmin" -> Bool(args[2] = Str("admin"))
      [] OTHER -> args[1]

\* f(*args): calling what is not callable, or with the wrong number of
\* arguments, raises TypeError.
Call(f, args) ==
    IF f.type # "function"
    THEN [raised |-> TRUE, ret |-> TypeError("object is not callable")]
    ELSE IF Len(args) # Arity(f.val)
    THEN [raised |-> TRUE, ret |-> TypeError("wrong number of arguments")]
    ELSE [raised |-> FALSE, ret |-> Apply(f.val, args)]

\* dict helpers: d[k] = v and del d[k]
Put(d, k, v) == [x \in (DOMAIN d) \cup {k} |-> IF x = k THEN v ELSE d[x]]
Del(d, k) == [x \in (DOMAIN d) \ {k} |-> d[x]]
EmptyDict == [x \in {} |-> None]

-----------------------------------------------------------------------------
(* Message *)

MessageFields ==
    {"source", "func", "func_context", "metadata", "key", "value",
     "accessor", "mutator", "context", "criteria", "entity"}

\* Message.__init__: id stands for the identity of the object built; opt
\* gives the optional fields passed, the others default to None.
Message(id, source, func, func_context, timestamp, opt) ==
    LET field(n) == IF n \in DOMAIN opt THEN opt[n] ELSE None
    IN  [type |-> "Message", id |-> id,
         source |-> source, func |-> func, func_context |-> func_context,
         metadata |-> [timestamp |-> timestamp],
         key |-> field("key"), value |-> field("value"),
         accessor |-> field("accessor"), mutator |-> field("mutator"),
         context |-> field("context"), criteria |-> field("criteria"),
         entity |-> field("entity")]

\* getattr(message, arg_name, None)
GetAttr(message, arg_name) ==
    IF arg_name \in MessageFields THEN message[arg_name] ELSE None

-----------------------------------------------------------------------------
(* The state as one record, so that a method is a function of it *)

State ==
    [registers |-> registers, accessors |-> accessors, mutators |-> mutators,
     immutables |-> immutables, messages |-> messages,
     api_permissions |-> api_permissions, api_mutable |-> api_mutable,
     connection_criteria |-> connection_criteria,
     disconnection_criteria |-> disconnection_criteria,
     is_connection_criteria_mutable |-> is_connection_criteria_mutable,
     is_disconnection_criteria_mutable |-> is_disconnection_criteria_mutable,
     connected_entities |-> connected_entities, names |-> names,
     entities |-> entities]

\* self.<attr> = v
SetAttr(s, self, attr, v) == [s EXCEPT ![attr] = Put(s[attr], self, v)]

-----------------------------------------------------------------------------
(* Component: construction *)

\* The bound methods inspect.getmembers(self, inspect.ismethod) finds, with
\* the parameters inspect.signature gives for each (self left out).
Parameters(func) ==
    CASE func = "__init__" ->
            <<"message_key_func", "connection_criteria",
              "disconnection_criteria", "is_connection_criteria_mutable",
              "is_disconnection_criteria_mutable", "api_accessibility",
              "api_mutable">>
      [] func = "get" -> <<"key", "context">>
      [] func = "eval" -> <<"key", "context", "content">>
      [] func = "update" -> <<"key", "value", "context">>
      [] func = "delete" -> <<"key", "context">>
      [] func = "add" ->
            <<"key", "accessor", "mutator", "immutability", "value">>
      [] func = "modify_mutator" -> <<"key", "value">>
      [] func = "modify_accessor" -> <<"key", "value">>
      [] func = "push_message" -> <<"message">>
      [] func = "get_next_message" -> <<>>
      [] func = "execute_message_contents" -> <<"message">>
      [] func = "modify_connection_criteria" -> <<"criteria">>
      [] func = "modify_disconnection_criteria" -> <<"criteria">>
      [] func = "connect_entity" -> <<"entity", "context">>
      [] func = "disconnect_entity" -> <<"entity", "context">>
      [] func = "message_entity" -> <<"entity", "message">>
      [] func = "modify_api_permission" -> <<"key", "value", "context">>
      [] func = "run" -> <<>>

\* The keys of self.exec_list.
exec_list ==
    {Str(n) : n \in
        {"__init__", "get", "eval", "update", "delete", "add",
         "modify_mutator", "modify_accessor", "push_message",
         "get_next_message", "execute_message_contents",
         "modify_connection_criteria", "modify_disconnection_criteria",
         "connect_entity", "disconnect_entity", "message_entity",
         "modify_api_permission", "run"}}

\* Before any component is built: the class attribute entities = dict().
NoComponents ==
    [registers |-> EmptyDict, accessors |-> EmptyDict, mutators |-> EmptyDict,
     immutables |-> EmptyDict, messages |-> EmptyDict,
     api_permissions |-> EmptyDict, api_mutable |-> EmptyDict,
     connection_criteria |-> EmptyDict, disconnection_criteria |-> EmptyDict,
     is_connection_criteria_mutable |-> EmptyDict,
     is_disconnection_criteria_mutable |-> EmptyDict,
     connected_entities |-> EmptyDict, names |-> EmptyDict,
     entities |-> EmptyDict]

\* The permission table as the table given whenever one is given.
InitialPermissions_given(api_accessibility) ==
    LET given == IF api_accessibility = None THEN EmptyDict
                 ELSE api_accessibility
    IN  IF DOMAIN given = {}
        THEN [key \in exec_list |-> Function("alwaysTrue")]
        ELSE given

\* The permission table __init__ builds from the api_accessibility given
\* (a dict, or None): an entry missing from a partial table is the value
\* True, not a predicate.
InitialPermissions(api_accessibility) ==
    LET given == IF api_accessibility = None THEN EmptyDict
                 ELSE api_accessibility
    IN  IF DOMAIN given = {}
        THEN [key \in exec_list |-> Function("alwaysTrue")]
        ELSE IF DOMAIN given # exec_list
        THEN [func \in exec_list |->
                 IF func \in DOMAIN given THEN given[func] ELSE True]
        ELSE given

\* Component.__init__ of a (sub)class whose __name__ is name; self is the
\* new object. (self.__name__ is read on the instance, so the class is only
\* constructible through a subclass that gives its instances a __name__.)
\* Parameters: cc = connection_criteria, dc = disconnection_criteria,
\* ccm = is_connection_criteria_mutable, dcm = is_disconnection_criteria_mutable,
\* acc = api_accessibility, am = api_mutable.
Component(s, self, name, cc, dc, ccm, dcm, acc, am) ==
    [registers |-> Put(s.registers, self, EmptyDict),
     accessors |-> Put(s.accessors, self, EmptyDict),
     mutators |-> Put(s.mutators, self, EmptyDict),
     immutables |-> Put(s.immutables, self, EmptyDict),
     messages |-> Put(s.messages, self, <<>>),
     connection_criteria |->
         Put(s.connection_criteria, self, cc),
     disconnection_criteria |->
         Put(s.disconnection_criteria, self, dc),
     connected_entities |-> Put(s.connected_entities, self, <<>>),
     is_connection_criteria_mutable |->
         Put(s.is_connection_criteria_mutable, self, ccm),
     is_disconnection_criteria_mutable |->
         Put(s.is_disconnection_criteria_mutable, self, dcm),
     names |-> Put(s.names, self, name),
     entities |-> Put(s.entities, Str(name), self),
     api_mutable |-> Put(s.api_mutable, self, am),
     api_permissions |->
         Put(s.api_permissions, self,
             InitialPermissions(acc))]

\* Component(message_key_func) with every other parameter at its default.
DefaultComponent(s, self, name) ==
    Component(s, self, name, Function("critTrue"), Function("critTrue"),
              TRUE, TRUE, None, Function("alwaysFalse"))

-----------------------------------------------------------------------------
(* Register store *)

\* get with the mutator predicate consulted instead of the accessor.
get_by_mutator(s, self, key, context) ==
    IF key \notin DOMAIN s.registers[self]
       \/ key \notin DOMAIN s.accessors[self]
    THEN Return(s, KeyError("Register does not exist"))
    ELSE LET r == Call(s.mutators[self][key], <<context>>)
         IN  IF r.raised THEN Raise(s, r.ret)
             ELSE IF Truthy(r.ret) THEN Return(s, s.registers[self][key])
             ELSE Return(s, PermissionError("Cannot access register"))

get(s, self, key, context) ==
    IF key \notin DOMAIN s.registers[self]
       \/ key \notin DOMAIN s.accessors[self]
    THEN Return(s, KeyError("Register does not exist"))
    ELSE LET r == Call(s.accessors[self][key], <<context>>)
         IN  IF r.raised THEN Raise(s, r.ret)
             ELSE IF Truthy(r.ret) THEN Return(s, s.registers[self][key])
             ELSE Return(s, PermissionError("Cannot access register"))

eval(s, self, key, context, content) ==
    IF key \notin DOMAIN s.registers[self]
       \/ key \notin DOMAIN s.accessors[self]
    THEN Return(s, KeyError("Register does not exist"))
    ELSE IF s.registers[self][key].type = "function"
    THEN Return(s, TypeError("Cannot call uncallable register"))
    ELSE LET a == Call(s.accessors[self][key], <<context>>)
         IN  IF a.raised THEN Raise(s, a.ret)
             ELSE IF ~Truthy(a.ret)
             THEN Return(s, PermissionError("Cannot access register"))
             ELSE LET r == Call(s.registers[self][key], <<content>>)
                  IN  IF r.raised THEN Raise(s, r.ret) ELSE Return(s, r.ret)

\* update that also refuses an immutable register.
update_frozen(s, self, key, value, context) ==
    IF key \notin DOMAIN s.registers[self]
       \/ key \notin DOMAIN s.mutators[self]
    THEN Return(s, KeyError("Register does not exist"))
    ELSE LET r == Call(s.mutators[self][key], <<context>>)
         IN  IF r.raised THEN Raise(s, r.ret)
             ELSE IF ~Truthy(r.ret) \/ Truthy(s.immutables[self][key])
             THEN Return(s, PermissionError("Cannot update register contents"))
             ELSE Return(SetAttr(s, self, "registers",
                                 Put(s.registers[self], key, value)),
                         None)

update(s, self, key, value, context) ==
    IF key \notin DOMAIN s.registers[self]
       \/ key \notin DOMAIN s.mutators[self]
    THEN Return(s, KeyError("Register does not exist"))
    ELSE LET r == Call(s.mutators[self][key], <<context>>)
         IN  IF r.raised THEN Raise(s, r.ret)
             ELSE IF ~Truthy(r.ret)
             THEN Return(s, PermissionError("Cannot update register contents"))
             ELSE Return(SetAttr(s, self, "registers",
                                 Put(s.registers[self], key, value)),
                         None)

\* delete without its last line, del self.immutables[key].
delete_partial(s, self, key, context) ==
    IF key \notin DOMAIN s.registers[self]
       \/ key \notin DOMAIN s.accessors[self]
       \/ key \notin DOMAIN s.mutators[self]
       \/ key \notin DOMAIN s.immutables[self]
    THEN Return(s, KeyError("Register cannot be removed"))
    ELSE LET r == IF Truthy(s.immutables[self][key])
                  THEN Call(s.mutators[self][key], <<context>>)
                  ELSE [raised |-> FALSE, ret |-> s.immutables[self][key]]
         IN  IF r.raised THEN Raise(s, r.ret)
             ELSE IF Truthy(r.ret)
             THEN Return(s, PermissionError("Register cannot be deleted"))
             ELSE Return(
                    [s EXCEPT
                       !.registers = Put(@, self, Del(@[self], key)),
                       !.accessors = Put(@, self, Del(@[self], key)),
                       !.mutators = Put(@, self, Del(@[self], key))],
                    None)

\* delete that also asks the mutator of a register that is not immutable.
delete_gated(s, self, key, context) ==
    IF key \notin DOMAIN s.registers[self]
       \/ key \notin DOMAIN s.accessors[self]
       \/ key \notin DOMAIN s.mutators[self]
       \/ key \notin DOMAIN s.immutables[self]
    THEN Return(s, KeyError("Register cannot be removed"))
    ELSE LET r == Call(s.mutators[self][key], <<context>>)
         IN  IF r.raised THEN Raise(s, r.ret)
             ELSE IF Truthy(s.immutables[self][key]) = Truthy(r.ret)
             THEN Return(s, PermissionError("Register cannot be deleted"))
             ELSE Return(
                    [s EXCEPT
                       !.registers = Put(@, self, Del(@[self], key)),
                       !.accessors = Put(@, self, Del(@[self], key)),
                       !.mutators = Put(@, self, Del(@[self], key)),
                       !.immutables = Put(@, self, Del(@[self], key))],
                    None)

delete(s, self, key, context) ==
    IF key \notin DOMAIN s.registers[self]
       \/ key \notin DOMAIN s.accessors[self]
       \/ key \notin DOMAIN s.mutators[self]
       \/ key \notin DOMAIN s.immutables[self]
    THEN Return(s, KeyError("Register cannot be removed"))
    ELSE LET r == IF Truthy(s.immutables[self][key])
                  THEN Call(s.mutators[self][key], <<context>>)
                  ELSE [raised |-> FALSE, ret |-> s.immutables[self][key]]
         IN  IF r.raised THEN Raise(s, r.ret)
             ELSE IF Truthy(r.ret)
             THEN Return(s, PermissionError("Register cannot be deleted"))
             ELSE Return(
                    [s EXCEPT
                       !.registers = Put(@, self, Del(@[self], key)),
                       !.accessors = Put(@, self, Del(@[self], key)),
                       !.mutators = Put(@, self, Del(@[self], key)),
                       !.immutables = Put(@, self, Del(@[self], key))],
                    None)

\* add without the test that the key is new.
add_overwrite(s, self, key, accessor, mutator, immutability, value) ==
    Return(
      [s EXCEPT
         !.registers = Put(@, self, Put(@[self], key, value)),
         !.accessors = Put(@, self, Put(@[self], key, accessor)),
         !.mutators = Put(@, self, Put(@[self], key, mutator)),
         !.immutables = Put(@, self, Put(@[self], key, immutability))],
      None)

add(s, self, key, accessor, mutator, immutability, value) ==
    IF key \in DOMAIN s.registers[self]
       \/ key \in DOMAIN s.accessors[self]
       \/ key \in DOMAIN s.mutators[self]
       \/ key \in DOMAIN s.immutables[self]
    THEN Return(s, KeyError("Register already exists"))
    ELSE Return(
           [s EXCEPT
              !.registers = Put(@, self, Put(@[self], key, value)),
              !.accessors = Put(@, self, Put(@[self], key, accessor)),
              !.mutators = Put(@, self, Put(@[self], key, mutator)),
              !.immutables = Put(@, self, Put(@[self], key, immutability))],
           None)

modify_mutator(s, self, key, value) ==
    IF key \notin DOMAIN s.registers[self]
       \/ key \notin DOMAIN s.mutators[self]
       \/ key \notin DOMAIN s.immutables[self]
    THEN Return(s, KeyError("Register does not exist"))
    ELSE IF Truthy(s.immutables[self][key])
    THEN Return(s, PermissionError(
                     "Register is immutable cannot modify mutators"))
    ELSE Return(SetAttr(s, self, "mutators",
                        Put(s.mutators[self], key, value)),
                None)

modify_accessor(s, self, key, value) ==
    IF key \notin DOMAIN s.registers[self]
       \/ key \notin DOMAIN s.accessors[self]
       \/ key \notin DOMAIN s.immutables[self]
    THEN Return(s, KeyError("Register does not exist"))
    ELSE IF Truthy(s.immutables[self][key])
    THEN Return(s, PermissionError(
                     "Register is immutable cannot modify accessor"))
    ELSE Return(SetAttr(s, self, "accessors",
                        Put(s.accessors[self], key, value)),
                None)

-----------------------------------------------------------------------------
(* Message queue *)

\* message_key_func: the priority key of a message (its timestamp).
message_key_func(message) == message.metadata["timestamp"]

\* HeapQueue(message_key_func), of the module heapqueue: push inserts the
\* item into priority order, the smallest key first; where it lands among
\* items of equal key is the structure's choice, pos.
HeapQueue_positions(list, item) ==
    {pos \in 1..(Len(list) + 1) :
        /\ \A i \in 1..(pos - 1) :
              message_key_func(list[i]) <= message_key_func(item)
        /\ \A i \in pos..Len(list) :
              message_key_func(item) <= message_key_func(list[i])}

HeapQueue_push(list, item, pos) ==
    SubSeq(list, 1, pos - 1) \o <<item>> \o SubSeq(list, pos, Len(list))

\* pop removes and returns the first item in priority order, or returns
\* None when there is none.
HeapQueue_pop(list) ==
    IF list = <<>> THEN [list |-> list, item |-> None]
    ELSE [list |-> Tail(list), item |-> Head(list)]

\* push_message as self.messages = [message]: what was queued is lost.
push_message_overwrite(s, self, message, pos) ==
    Return(SetAttr(s, self, "messages", <<message>>), None)

push_message(s, self, message, pos) ==
    Return(SetAttr(s, self, "messages",
                   HeapQueue_push(s.messages[self], message, pos)),
           None)

\* get_next_message as self.messages.pop(): the last item of the list.
get_next_message_last(s, self) ==
    LET list == s.messages[self]
    IN  IF list = <<>> THEN Return(s, None)
        ELSE Return(SetAttr(s, self, "messages",
                            SubSeq(list, 1, Len(list) - 1)),
                    list[Len(list)])

get_next_message(s, self) ==
    LET p == HeapQueue_pop(s.messages[self])
    IN  Return(SetAttr(s, self, "messages", p.list), p.item)

-----------------------------------------------------------------------------
(* Connection graph *)

\* self.entities.keys, the bound method (it is not called), and the classes
\* str and Message as the objects the code tests.
entities_keys == [type |-> "builtin_function_or_method", val |-> "keys"]
StrClass == [type |-> "type", val |-> "str"]
MessageClass == [type |-> "type", val |-> "Message"]

\* x in container: a method object is not a container, which raises.
In(x, container, members) ==
    IF container.type = "builtin_function_or_method"
    THEN [raised |-> TRUE,
          ret |-> TypeError("argument of type 'builtin_function_or_method' is not iterable")]
    ELSE [raised |-> FALSE, ret |-> Bool(x \in members)]

Range(seq) == {seq[i] : i \in 1..Len(seq)}

\* list.remove(x): removes the first occurrence.
Remove(seq, x) ==
    LET i == CHOOSE j \in 1..Len(seq) :
                 seq[j] = x /\ \A k \in 1..(j - 1) : seq[k] # x
    IN  SubSeq(seq, 1, i - 1) \o SubSeq(seq, i + 1, Len(seq))

modify_connection_criteria(s, self, criteria) ==
    IF ~s.is_connection_criteria_mutable[self]
    THEN Return(s, PermissionError(
                     "Criteria is immutable and cannot be modified"))
    ELSE Return(SetAttr(s, self, "connection_criteria", criteria), None)

modify_disconnection_criteria(s, self, criteria) ==
    IF ~s.is_disconnection_criteria_mutable[self]
    THEN Return(s, PermissionError(
                     "Criteria is immutable and cannot be modified"))
    ELSE Return(SetAttr(s, self, "disconnection_criteria", criteria), None)

\* connect_entity without the look-up of the name in the directory.
connect_entity_unchecked(s, self, entity, context) ==
    LET c == Call(s.connection_criteria[self], <<entity, context>>)
    IN  IF c.raised THEN Raise(s, c.ret)
        ELSE IF ~Truthy(c.ret)
        THEN Return(s, PermissionError("Criteria is not satisfied"))
        ELSE Return(SetAttr(s, self, "connected_entities",
                            Append(s.connected_entities[self], entity)),
                    None)

connect_entity(s, self, entity, context) ==
    LET c == Call(s.connection_criteria[self], <<entity, context>>)
        found == In(StrClass, entities_keys, DOMAIN s.entities)
    IN  IF c.raised THEN Raise(s, c.ret)
        ELSE IF ~Truthy(c.ret)
        THEN Return(s, PermissionError("Criteria is not satisfied"))
        ELSE IF found.raised THEN Raise(s, found.ret)
        ELSE IF ~Truthy(found.ret)
        THEN Return(s, KeyError("Entity does not exist"))
        ELSE Return(SetAttr(s, self, "connected_entities",
                            Append(s.connected_entities[self], entity)),
                    None)

disconnect_entity(s, self, entity, context) ==
    LET c == Call(s.disconnection_criteria[self], <<entity, context>>)
        found == In(StrClass, entities_keys, DOMAIN s.entities)
    IN  IF c.raised THEN Raise(s, c.ret)
        ELSE IF ~Truthy(c.ret)
        THEN Return(s, PermissionError("Criteria is not satisfied"))
        ELSE IF found.raised THEN Raise(s, found.ret)
        ELSE IF ~Truthy(found.ret)
        THEN Return(s, KeyError("Entity does not exist"))
        ELSE IF StrClass \notin Range(s.connected_entities[self])
        THEN Return(s, KeyError("Entity is not connected"))
        ELSE IF entity \notin Range(s.connected_entities[self])
        THEN Raise(s, Error("ValueError", "list.remove(x): x not in list"))
        ELSE Return(SetAttr(s, self, "connected_entities",
                            Remove(s.connected_entities[self], entity)),
                    None)

message_entity(s, self, entity, message) ==
    LET found == In(entity, entities_keys, DOMAIN s.entities)
    IN  IF found.raised THEN Raise(s, found.ret)
        ELSE IF ~Truthy(found.ret)
        THEN Return(s, ConnectionError("Entity does not exist"))
        ELSE IF entity \notin Range(s.connected_entities[self])
        THEN Return(s, ConnectionError("Entity is not connected"))
        ELSE LET target == s.entities[entity]
                 pos == CHOOSE q \in
                            HeapQueue_positions(s.messages[target], message) :
                            TRUE
             IN  push_message(s, target, message, pos)

-----------------------------------------------------------------------------
(* Permission layer *)

\* modify_api_permission with api_mutable consulted before the key.
modify_api_permission_locked_first(s, self, key, value, context) ==
    LET r == Call(s.api_mutable[self], <<context>>)
    IN  IF r.raised THEN Raise(s, r.ret)
        ELSE IF ~Truthy(r.ret)
        THEN Return(s, PermissionError(
               "Api accessibility cannot be modified with this context"))
        ELSE IF key \notin DOMAIN s.api_permissions[self]
        THEN Return(s, KeyError("Api function is not available"))
        ELSE Return(SetAttr(s, self, "api_permissions",
                            Put(s.api_permissions[self], key, value)),
                    None)

modify_api_permission(s, self, key, value, context) ==
    IF key \notin DOMAIN s.api_permissions[self]
    THEN Return(s, KeyError("Api function is not available"))
    ELSE LET r == Call(s.api_mutable[self], <<context>>)
         IN  IF r.raised THEN Raise(s, r.ret)
             ELSE IF ~Truthy(r.ret)
             THEN Return(s, PermissionError(
                    "Api accessibility cannot be modified with this context"))
             ELSE Return(SetAttr(s, self, "api_permissions",
                                 Put(s.api_permissions[self], key, value)),
                         None)

-----------------------------------------------------------------------------
(* Dispatch engine and run loop *)

RECURSIVE run(_, _)
RECURSIVE execute_message_contents(_, _, _)
RECURSIVE Invoke(_, _, _, _)

\* func(**arg_map) for the bound method exec_list[func].
Invoke(s, self, func, arg_map) ==
    CASE func = "get" -> get(s, self, arg_map["key"], arg_map["context"])
      [] func = "eval" ->
            eval(s, self, arg_map["key"], arg_map["context"],
                 arg_map["content"])
      [] func = "update" ->
            update(s, self, arg_map["key"], arg_map["value"],
                   arg_map["context"])
      [] func = "delete" ->
            delete(s, self, arg_map["key"], arg_map["context"])
      [] func = "add" ->
            add(s, self, arg_map["key"], arg_map["accessor"],
                arg_map["mutator"], arg_map["immutability"],
                arg_map["value"])
      [] func = "modify_mutator" ->
            modify_mutator(s, self, arg_map["key"], arg_map["value"])
      [] func = "modify_accessor" ->
            modify_accessor(s, self, arg_map["key"], arg_map["value"])
      [] func = "push_message" ->
            push_message(s, self, arg_map["message"],
                CHOOSE q \in HeapQueue_positions(s.messages[self],
                                                 arg_map["message"]) : TRUE)
      [] func = "get_next_message" -> get_next_message(s, self)
      [] func = "execute_message_contents" ->
            execute_message_contents(s, self, arg_map["message"])
      [] func = "modify_connection_criteria" ->
            modify_connection_criteria(s, self, arg_map["criteria"])
      [] func = "modify_disconnection_criteria" ->
            modify_disconnection_criteria(s, self, arg_map["criteria"])
      [] func = "connect_entity" ->
            connect_entity(s, self, arg_map["entity"], arg_map["context"])
      [] func = "disconnect_entity" ->
            disconnect_entity(s, self, arg_map["entity"], arg_map["context"])
      [] func = "message_entity" ->
            message_entity(s, self, arg_map["entity"], arg_map["message"])
      [] func = "modify_api_permission" ->
            modify_api_permission(s, self, arg_map["key"], arg_map["value"],
                                  arg_map["context"])
      [] func = "run" -> run(s, self)
      [] func = "__init__" ->
            Return(Component(s, self, s.names[self],
                             arg_map["connection_criteria"],
                             arg_map["disconnection_criteria"],
                             Truthy(arg_map["is_connection_criteria_mutable"]),
                             Truthy(arg_map["is_disconnection_criteria_mutable"]),
                             arg_map["api_accessibility"],
                             arg_map["api_mutable"]),
                   None)

\* The first formal parameter, in the order of the signature, for which
\* `not getattr(message, arg_name, None)` holds; 0 when there is none.
FirstUnbound(message, arg_names) ==
    LET unbound == {i \in 1..Len(arg_names) :
                       ~Truthy(GetAttr(message, arg_names[i]))}
    IN  IF unbound = {} THEN 0
        ELSE CHOOSE i \in unbound : \A j \in unbound : i <= j

\* execute_message_contents with the permission predicate applied to
\* message.context instead of message.func_context.
execute_message_contents_context(s, self, message) ==
    IF message.type # "Message"
    THEN Raise(s, AttributeError("object has no attribute 'func'"))
    ELSE IF message.func \notin exec_list
    THEN Return(s, KeyError("Function not available"))
    ELSE LET p == Call(s.api_permissions[self][message.func],
                       <<message.context>>)
             arg_names == Parameters(message.func.val)
             bad == FirstUnbound(message, arg_names)
         IN  IF p.raised THEN Raise(s, p.ret)
             ELSE IF ~Truthy(p.ret)
             THEN Return(s, PermissionError("Function not executable"))
             ELSE IF bad # 0
             THEN Return(s, SyntaxError("Failure to match arguments properly",
                                        arg_names[bad]))
             ELSE Invoke(s, self, message.func.val,
                         [n \in Range(arg_names) |-> GetAttr(message, n)])

\* execute_message_contents without the test of the permission predicate.
execute_message_contents_unchecked(s, self, message) ==
    IF message.type # "Message"
    THEN Raise(s, AttributeError("object has no attribute 'func'"))
    ELSE IF message.func \notin exec_list
    THEN Return(s, KeyError("Function not available"))
    ELSE LET arg_names == Parameters(message.func.val)
             bad == FirstUnbound(message, arg_names)
         IN  IF bad # 0
             THEN Return(s, SyntaxError("Failure to match arguments properly",
                                        arg_names[bad]))
             ELSE Invoke(s, self, message.func.val,
                         [n \in Range(arg_names) |-> GetAttr(message, n)])

execute_message_contents(s, self, message) ==
    IF message.type # "Message"
    THEN Raise(s, AttributeError("object has no attribute 'func'"))
    ELSE IF message.func \notin exec_list
    THEN Return(s, KeyError("Function not available"))
    ELSE LET p == Call(s.api_permissions[self][message.func],
                       <<message.func_context>>)
             arg_names == Parameters(message.func.val)
             bad == FirstUnbound(message, arg_names)
         IN  IF p.raised THEN Raise(s, p.ret)
             ELSE IF ~Truthy(p.ret)
             THEN Return(s, PermissionError("Function not executable"))
             ELSE IF bad # 0
             THEN Return(s, SyntaxError("Failure to match arguments properly",
                                        arg_names[bad]))
             ELSE Invoke(s, self, message.func.val,
                         [n \in Range(arg_names) |-> GetAttr(message, n)])

run(s, self) ==
    LET next == get_next_message(s, self)
    IN  IF ~Truthy(MessageClass)
        THEN Return(next.s, BlockedComponentError("Component queue is empty"))
        ELSE execute_message_contents(next.s, self, next.ret)

-----------------------------------------------------------------------------
(* Calls: one action per method called by the embedder *)

\* The call of op on self with args has the outcome out.
Effect(op, self, args, out) ==
    /\ registers' = out.s.registers
    /\ accessors' = out.s.accessors
    /\ mutators' = out.s.mutators
    /\ immutables' = out.s.immutables
    /\ messages' = out.s.messages
    /\ api_permissions' = out.s.api_permissions
    /\ api_mutable' = out.s.api_mutable
    /\ connection_criteria' = out.s.connection_criteria
    /\ disconnection_criteria' = out.s.disconnection_criteria
    /\ is_connection_criteria_mutable' = out.s.is_connection_criteria_mutable
    /\ is_disconnection_criteria_mutable' =
           out.s.is_disconnection_criteria_mutable
    /\ connected_entities' = out.s.connected_entities
    /\ names' = out.s.names
    /\ entities' = out.s.entities
    /\ call' = [op |-> op, self |-> self, args |-> args, before |-> State,
                ret |-> out.ret, raised |-> out.raised]

Do(op, self, args, out) ==
    Effect(op, self, args, out) /\ UNCHANGED <<pushed, returned>>

\* The identities of the Message objects followed through a queue.
MaxMessages == 3
Ids == 1..MaxMessages

\* The state s, reached by constructing components, as the initial state.
Constructed(s) ==
    /\ registers = s.registers
    /\ accessors = s.accessors
    /\ mutators = s.mutators
    /\ immutables = s.immutables
    /\ messages = s.messages
    /\ api_permissions = s.api_permissions
    /\ api_mutable = s.api_mutable
    /\ connection_criteria = s.connection_criteria
    /\ disconnection_criteria = s.disconnection_criteria
    /\ is_connection_criteria_mutable = s.is_connection_criteria_mutable
    /\ is_disconnection_criteria_mutable = s.is_disconnection_criteria_mutable
    /\ connected_entities = s.connected_entities
    /\ names = s.names
    /\ entities = s.entities
    /\ call = [op |-> "__init__", self |-> "", args |-> EmptyDict,
               before |-> s, ret |-> None, raised |-> FALSE]
    /\ pushed = [id \in Ids |-> 0]
    /\ returned = [id \in Ids |-> 0]

Get(self, key, context) ==
    Do("get", self, [key |-> key, context |-> context],
       get(State, self, key, context))

Eval(self, key, context, content) ==
    Do("eval", self, [key |-> key, context |-> context, content |-> content],
       eval(State, self, key, context, content))

Update(self, key, value, context) ==
    Do("update", self, [key |-> key, value |-> value, context |-> context],
       update(State, self, key, value, context))

Delete(self, key, context) ==
    Do("delete", self, [key |-> key, context |-> context],
       delete(State, self, key, context))

Add(self, key, accessor, mutator, immutability, value) ==
    Do("add", self,
       [key |-> key, accessor |-> accessor, mutator |-> mutator,
        immutability |-> immutability, value |-> value],
       add(State, self, key, accessor, mutator, immutability, value))

ModifyMutator(self, key, value) ==
    Do("modify_mutator", self, [key |-> key, value |-> value],
       modify_mutator(State, self, key, value))

ModifyAccessor(self, key, value) ==
    Do("modify_accessor", self, [key |-> key, value |-> value],
       modify_accessor(State, self, key, value))

PushMessage(self, message, pos) ==
    /\ pos \in HeapQueue_positions(messages[self], message)
    /\ Do("push_message", self, [message |-> message],
          push_message(State, self, message, pos))

GetNextMessage(self) ==
    Do("get_next_message", self, EmptyDict, get_next_message(State, self))

ExecuteMessageContents(self, message) ==
    Do("execute_message_contents", self, [message |-> message],
       execute_message_contents(State, self, message))

ModifyConnectionCriteria(self, criteria) ==
    Do("modify_connection_criteria", self, [criteria |-> criteria],
       modify_connection_criteria(State, self, criteria))

ModifyDisconnectionCriteria(self, criteria) ==
    Do("modify_disconnection_criteria", self, [criteria |-> criteria],
       modify_disconnection_criteria(State, self, criteria))

ConnectEntity(self, entity, context) ==
    Do("connect_entity", self, [entity |-> entity, context |-> context],
       connect_entity(State, self, entity, context))

DisconnectEntity(self, entity, context) ==
    Do("disconnect_entity", self, [entity |-> entity, context |-> context],
       disconnect_entity(State, self, entity, context))

MessageEntity(self, entity, message) ==
    Do("message_entity", self, [entity |-> entity, message |-> message],
       message_entity(State, self, entity, message))

ModifyApiPermission(self, key, value, context) ==
    Do("modify_api_permission", self,
       [key |-> key, value |-> value, context |-> context],
       modify_api_permission(State, self, key, value, context))

Run(self) == Do("run", self, EmptyDict, run(State, self))

-----------------------------------------------------------------------------
(* The register store under direct calls *)

Keys == {Str("x"), Str("y")}
Values == {Int0, Int42}
Predicates == {Function("alwaysTrue"), Function("isAdmin")}
Contexts == {Str("admin"), Str("guest")}
Flags == {True, False}

\* Two components, A and B, built with the default parameters.
TwoComponents ==
    DefaultComponent(DefaultComponent(NoComponents, "a", "A"), "b", "B")

InitRegisters == Constructed(TwoComponents)

NextRegisters ==
    \/ \E key \in Keys, accessor \in Predicates, mutator \in Predicates,
          immutability \in Flags, value \in Values :
          Add("a", key, accessor, mutator, immutability, value)
    \/ \E key \in Keys, value \in Values, context \in Contexts :
          Update("a", key, value, context)
    \/ \E key \in Keys, context \in Contexts : Delete("a", key, context)
    \/ \E key \in Keys, value \in Predicates : ModifyAccessor("a", key, value)
    \/ \E key \in Keys, value \in Predicates : ModifyMutator("a", key, value)
    \/ \E key \in Keys, context \in Contexts : Get("a", key, context)

SpecRegisters == InitRegisters /\ [][NextRegisters]_vars

\* C1: in every reachable state the value map, the accessor map, the
\* mutator map and the immutability map of a component have the same keys.
C1_SameKeys ==
    \A c \in DOMAIN registers :
        /\ DOMAIN registers[c] = DOMAIN accessors[c]
        /\ DOMAIN accessors[c] = DOMAIN mutators[c]
        /\ DOMAIN mutators[c] = DOMAIN immutables[c]

\* A register was deleted by a successful delete while another remains.
C1_Witness ==
    /\ call.op = "delete" /\ call.ret = None /\ ~call.raised
    /\ call.args.key \in DOMAIN call.before.registers["a"]
    /\ call.args.key \notin DOMAIN registers["a"]
    /\ DOMAIN registers["a"] # {}

\* The register of key in component c, as the four maps hold it in state s.
Register(s, c, key) ==
    [value |-> s.registers[c][key], accessor |-> s.accessors[c][key],
     mutator |-> s.mutators[c][key], immutable |-> s.immutables[c][key]]

Exists(s, c, key) ==
    /\ key \in DOMAIN s.registers[c] /\ key \in DOMAIN s.accessors[c]
    /\ key \in DOMAIN s.mutators[c] /\ key \in DOMAIN s.immutables[c]

\* C14: get(key, ctx) returns KeyNotFound if key is absent, AccessDenied if
\* the key's accessor is false on ctx, and otherwise the register's current
\* value, so that get after add(k, a, m, false, v) with a(ctx) true returns
\* v; in all three cases it changes no state.
C14_Get ==
    /\ call.op = "get" =>
           /\ ~call.raised
           /\ State = call.before
           /\ call.ret =
                 IF ~Exists(call.before, call.self, call.args.key)
                 THEN KeyError("Register does not exist")
                 ELSE IF ~Truthy(Apply(
                            call.before.accessors[call.self][call.args.key].val,
                            <<call.args.context>>))
                 THEN PermissionError("Cannot access register")
                 ELSE call.before.registers[call.self][call.args.key]
    /\ (/\ call.op = "add" /\ call.ret = None
        /\ call.args.immutability = False) =>
           \A ctx \in Contexts :
               Truthy(Apply(call.args.accessor.val, <<ctx>>)) =>
                   get(State, call.self, call.args.key, ctx) =
                       Return(State, call.args.value)

\* get returned the value of a register whose accessor lets only admin read.
C14_Witness ==
    /\ call.op = "get" /\ ~call.raised
    /\ Exists(call.before, call.self, call.args.key)
    /\ call.before.accessors[call.self][call.args.key] = Function("isAdmin")
    /\ call.before.mutators[call.self][call.args.key] =
           Function("alwaysTrue")
    /\ call.args.context = Str("admin")
    /\ call.ret = Int42

\* C15: delete(key, ctx) on a register added with immutable = true fails
\* with ImmutableRegister for every ctx, whether the mutator is true or false
\* on ctx, and the register remains in all four maps.
C15_ImmutableNotDeleted ==
    (/\ call.op = "delete"
     /\ Exists(call.before, call.self, call.args.key)
     /\ Truthy(call.before.immutables[call.self][call.args.key])) =>
        /\ ~call.raised
        /\ call.ret = PermissionError("Register cannot be deleted")
        /\ Exists(State, call.self, call.args.key)

\* C16: add on a key that already exists fails with KeyAlreadyExists and
\* leaves the register's value, accessor, mutator and flag as they were,
\* whatever arguments the second add carries.
C16_AddExisting ==
    (/\ call.op = "add"
     /\ Exists(call.before, call.self, call.args.key)) =>
        /\ ~call.raised
        /\ call.ret = KeyError("Register already exists")
        /\ State = call.before

\* add was called on an existing key with a value, an accessor, a mutator
\* and a flag that all differ from the register's.
C16_Witness ==
    /\ call.op = "add"
    /\ Exists(call.before, call.self, call.args.key)
    /\ LET r == Register(call.before, call.self, call.args.key)
       IN  /\ r.value # call.args.value
           /\ r.accessor # call.args.accessor
           /\ r.mutator # call.args.mutator
           /\ r.immutable # call.args.immutability

\* C17: a register added with immutable = true is, after add and after any
\* later operation, still there with the accessor, the mutator and the flag
\* given at add; modify_accessor and modify_mutator on it return
\* ImmutableRegister.
C17_ImmutableFrozen ==
    /\ (/\ call.op = "add" /\ call.ret = None
        /\ call.args.immutability = True) =>
           /\ Exists(State, call.self, call.args.key)
           /\ accessors[call.self][call.args.key] = call.args.accessor
           /\ mutators[call.self][call.args.key] = call.args.mutator
           /\ immutables[call.self][call.args.key] = True
    /\ call.op # "__init__" =>
           \A key \in DOMAIN call.before.immutables[call.self] :
               Truthy(call.before.immutables[call.self][key]) =>
                   /\ Exists(State, call.self, key)
                   /\ accessors[call.self][key] =
                          call.before.accessors[call.self][key]
                   /\ mutators[call.self][key] =
                          call.before.mutators[call.self][key]
                   /\ immutables[call.self][key] =
                          call.before.immutables[call.self][key]
                   /\ (call.op = "modify_accessor" /\ call.args.key = key) =>
                          call.ret = PermissionError(
                              "Register is immutable cannot modify accessor")
                   /\ (call.op = "modify_mutator" /\ call.args.key = key) =>
                          call.ret = PermissionError(
                              "Register is immutable cannot modify mutators")

\* C18: update(key, v, ctx) replaces the register's value exactly when the
\* key exists and its mutator is true on ctx, also for an immutable
\* register, and changes nothing but that value; when it fails with
\* KeyNotFound or AccessDenied nothing is changed.
C18_Update ==
    call.op = "update" =>
        /\ ~call.raised
        /\ IF ~Exists(call.before, call.self, call.args.key)
           THEN /\ call.ret = KeyError("Register does not exist")
                /\ State = call.before
           ELSE IF ~Truthy(Apply(
                      call.before.mutators[call.self][call.args.key].val,
                      <<call.args.context>>))
           THEN /\ call.ret =
                      PermissionError("Cannot update register contents")
                /\ State = call.before
           ELSE /\ call.ret = None
                /\ State =
                      [call.before EXCEPT
                          !.registers[call.self][call.args.key] =
                              call.args.value]

\* update replaced the value of an immutable register by another value.
C18_Witness ==
    /\ call.op = "update" /\ call.ret = None
    /\ Truthy(call.before.immutables[call.self][call.args.key])
    /\ call.before.registers[call.self][call.args.key] # call.args.value
    /\ registers[call.self][call.args.key] = call.args.value

-----------------------------------------------------------------------------
(* Registers that hold callables: eval *)

\* What a register is given to hold: a number or the function echo.
Stored == {Int42, Function("echo")}

InitEval == Constructed(TwoComponents)

NextEval ==
    \/ \E key \in Keys, accessor \in Predicates, value \in Stored :
          Add("a", key, accessor, Function("alwaysTrue"), False, value)
    \/ \E key \in Keys : Delete("a", key, Str("admin"))
    \/ \E key \in Keys, context \in Contexts, content \in Values :
          Eval("a", key, context, content)

SpecEval == InitEval /\ [][NextEval]_vars

\* C19: eval(key, ctx, args) fails with KeyNotFound if the key is absent,
\* else with NotInvocable if the stored value is not callable, else with
\* AccessDenied if the accessor is false on ctx; only when the key exists,
\* the value is callable and the accessor passes does it invoke the value
\* with args and return its result.
C19_EvalOrder ==
    call.op = "eval" =>
        LET key == call.args.key
            value == call.before.registers[call.self][key]
            accessor == call.before.accessors[call.self][key]
        IN  /\ ~call.raised
            /\ call.ret =
                  IF ~Exists(call.before, call.self, key)
                  THEN KeyError("Register does not exist")
                  ELSE IF value.type # "function"
                  THEN TypeError("Cannot call uncallable register")
                  ELSE IF ~Truthy(Apply(accessor.val, <<call.args.context>>))
                  THEN PermissionError("Cannot access register")
                  ELSE Apply(value.val, <<call.args.content>>)

-----------------------------------------------------------------------------
(* The message queue of one component: senders push, the owner pops *)

MaxTimestamp == 2

\* A sender builds a new Message (the free identity id) and pushes it.
Produce(self, id, timestamp, pos) ==
    LET message == Message(id, Str("B"), Str("get"), Str("admin"), timestamp,
                           [key |-> Str("x"), context |-> Str("admin")])
    IN  /\ pushed[id] = 0
        /\ \A j \in Ids : j < id => pushed[j] > 0
        /\ pos \in HeapQueue_positions(messages[self], message)
        /\ Effect("push_message", self, [message |-> message],
                  push_message(State, self, message, pos))
        /\ pushed' = [pushed EXCEPT ![id] = @ + 1]
        /\ UNCHANGED returned

\* The owner pops.
Consume(self) ==
    LET out == get_next_message(State, self)
    IN  /\ Effect("get_next_message", self, EmptyDict, out)
        /\ returned' = IF out.ret.type = "Message"
                       THEN [returned EXCEPT ![out.ret.id] = @ + 1]
                       ELSE returned
        /\ UNCHANGED pushed

\* The owner is done with a Message it got back: its identity is free for
\* a Message built later.
Release(self, id) ==
    /\ returned[id] > 0
    /\ \A i \in 1..Len(messages[self]) : messages[self][i].id # id
    /\ pushed' = [pushed EXCEPT ![id] = 0]
    /\ returned' = [returned EXCEPT ![id] = 0]
    /\ UNCHANGED <<registers, accessors, mutators, immutables, messages,
                   api_permissions, api_mutable, connection_criteria,
                   disconnection_criteria, is_connection_criteria_mutable,
                   is_disconnection_criteria_mutable, connected_entities,
                   names, entities, call>>

InitQueue == Constructed(TwoComponents)

NextQueue ==
    \/ \E id \in Ids, timestamp \in 1..MaxTimestamp, pos \in 1..(MaxMessages + 1) :
          Produce("a", id, timestamp, pos)
    \/ Consume("a")
    \/ \E id \in Ids : Release("a", id)

\* The owner keeps popping: a pop that can return a message is taken.
SpecQueue == InitQueue /\ [][NextQueue]_vars /\ WF_vars(Consume("a"))

\* How many times the Message id is in the queue of component c.
InQueue(c, id) ==
    Cardinality({i \in 1..Len(messages[c]) : messages[c][i].id = id})

\* No loss, no duplicate, nothing invented: a Message is returned at most
\* once and only if it was pushed, and a pushed Message that was not
\* returned yet is in the queue.
NoLossNoDuplicate ==
    \A id \in Ids :
        /\ returned[id] <= 1
        /\ returned[id] <= pushed[id]
        /\ pushed[id] = returned[id] + InQueue("a", id)

Pushing == call'.op = "push_message"

\* C2 as stated: every pushed Message is returned exactly once, and is
\* eventually returned if the owner keeps popping.
C2_Original ==
    /\ []NoLossNoDuplicate
    /\ \A id \in Ids : (pushed[id] > 0) ~> (returned[id] > 0)

\* C2 as amended: a Message is returned at most once and only if pushed, a
\* pushed Message not yet returned stays in the queue, and once the senders
\* stop pushing, every pushed Message is eventually returned if the owner
\* keeps popping.
C2_ExactlyOnce ==
    /\ []NoLossNoDuplicate
    /\ (<>[][~Pushing]_vars) =>
           \A id \in Ids : (pushed[id] > 0) ~> (returned[id] > 0)

\* A pushed Message came back once while another is still waiting.
C2_Witness ==
    /\ call.op = "get_next_message" /\ call.ret.type = "Message"
    /\ pushed[call.ret.id] = 1 /\ returned[call.ret.id] = 1
    /\ messages["a"] # <<>>

\* C3: get_next_message never returns a Message while one of strictly
\* higher priority (a smaller key) is still in the queue, and on an empty
\* queue it returns None and leaves the queue empty.
C3_PriorityOrder ==
    call.op = "get_next_message" =>
        LET queue_before == call.before.messages[call.self]
            queue == messages[call.self]
        IN  /\ ~call.raised
            /\ IF queue_before = <<>>
               THEN call.ret = None /\ queue = <<>>
               ELSE /\ call.ret \in Range(queue_before)
                    /\ Len(queue) = Len(queue_before) - 1
                    /\ \A i \in 1..Len(queue) :
                          message_key_func(call.ret)
                              <= message_key_func(queue[i])

\* A Message was returned while one of lower priority stays behind.
C3_Witness ==
    /\ call.op = "get_next_message" /\ call.ret.type = "Message"
    /\ \E i \in 1..Len(messages["a"]) :
          message_key_func(call.ret) < message_key_func(messages["a"][i])

-----------------------------------------------------------------------------
(* Dispatch: messages pushed to a component, run and executed *)

MaxQueue == 2

\* A permission table that names every operation: get and delete are for
\* the context "admin" only.
AdminTable ==
    [func \in exec_list |->
        IF func \in {Str("get"), Str("delete")} THEN Function("isAdmin")
        ELSE Function("alwaysTrue")]

\* Component a, built with AdminTable, to which the register x = 42 was
\* added.
DispatchComponent ==
    add(Component(NoComponents, "a", "A", Function("critTrue"),
                  Function("critTrue"), TRUE, TRUE, AdminTable,
                  Function("alwaysTrue")),
        "a", Str("x"), Function("alwaysTrue"), Function("alwaysTrue"),
        False, Int42).s

\* Message(source, func, func_context, None, ...) built by a sender.
Msg(func, func_context, opt) ==
    Message(0, Str("B"), Str(func), Str(func_context), 1, opt)

DispatchMessages ==
    {Msg("get", "admin", [key |-> Str("x"), context |-> Str("admin")]),
     Msg("get", "admin", [key |-> Str("y"), context |-> Str("admin")]),
     Msg("get", "guest", [key |-> Str("x"), context |-> Str("admin")]),
     Msg("get", "admin", [key |-> Str("x")]),
     Msg("get", "admin", [key |-> Str("")]),
     Msg("get", "admin", [key |-> Str("x"), context |-> Int0]),
     Msg("update", "admin",
         [key |-> Str("x"), value |-> Int0, context |-> Str("admin")]),
     Msg("update", "admin",
         [key |-> Str("x"), value |-> Str("new"), context |-> Str("admin")]),
     Msg("delete", "admin", [key |-> Str("x"), context |-> Str("admin")]),
     Msg("add", "admin",
         [key |-> Str("y"), accessor |-> Function("alwaysTrue"),
          mutator |-> Function("alwaysTrue"), value |-> Int42]),
     Msg("halt", "guest", EmptyDict),
     Msg("run", "admin", EmptyDict),
     Msg("get_next_message", "admin", EmptyDict)}

InitDispatch == Constructed(DispatchComponent)

NextDispatch ==
    \/ \E message \in DispatchMessages, pos \in 1..(MaxQueue + 1) :
          /\ Len(messages["a"]) < MaxQueue
          /\ PushMessage("a", message, pos)
    \/ Run("a")
    \/ \E message \in DispatchMessages : ExecuteMessageContents("a", message)

SpecDispatch == InitDispatch /\ [][NextDispatch]_vars

\* The state of every component is as it was before the last call.
Untouched == State = call.before

\* C4: run() on a component whose queue is empty returns
\* BlockedComponentError, dispatches nothing and changes nothing.
C4_BlockedOnEmpty ==
    (call.op = "run" /\ call.before.messages[call.self] = <<>>) =>
        /\ ~call.raised
        /\ call.ret.type = "BlockedComponentError"
        /\ Untouched

\* C5: run() on a queue of n >= 1 messages that returns has popped exactly
\* one message: the queue holds n - 1 messages, whatever operation the
\* message names.
C5_OneCycle ==
    (call.op = "run" /\ call.before.messages[call.self] # <<>>
                     /\ ~call.raised) =>
        Len(messages[call.self]) = Len(call.before.messages[call.self]) - 1

\* The permission predicate of the operation a message names, applied to
\* the message's func_context, in the state before the last call.
Permission(message) ==
    Call(call.before.api_permissions[call.self][message.func],
         <<message.func_context>>)

Refused(message) ==
    /\ message.func \in exec_list
    /\ ~Permission(message).raised
    /\ ~Truthy(Permission(message).ret)

Permitted(message) ==
    /\ message.func \in exec_list
    /\ ~Permission(message).raised
    /\ Truthy(Permission(message).ret)

\* C6: execute_message_contents returns KeyError("Function not available")
\* for an operation that is not exposed, and otherwise
\* PermissionError("Function not executable") when the permission predicate
\* is false on func_context; in both cases nothing is invoked or changed.
C6_ChecksInOrder ==
    call.op = "execute_message_contents" =>
        LET message == call.args.message
        IN  /\ message.func \notin exec_list =>
                  /\ ~call.raised
                  /\ call.ret = KeyError("Function not available")
                  /\ Untouched
            /\ Refused(message) =>
                  /\ ~call.raised
                  /\ call.ret = PermissionError("Function not executable")
                  /\ Untouched

\* An exposed operation was refused for its func_context.
C6_Witness ==
    /\ call.op = "execute_message_contents"
    /\ Refused(call.args.message)
    /\ call.ret = PermissionError("Function not executable")

\* The formal parameters of the operation whose Message field is absent.
Absent(message) ==
    {n \in Range(Parameters(message.func.val)) : GetAttr(message, n) = None}

\* C7: a permitted Message with a formal parameter whose field is absent
\* fails with SyntaxError naming an absent parameter, and nothing is invoked.
C7_NamesAbsent ==
    (/\ call.op = "execute_message_contents"
     /\ Permitted(call.args.message)
     /\ Absent(call.args.message) # {}) =>
        /\ ~call.raised
        /\ call.ret.type = "SyntaxError"
        /\ call.ret.arg_name \in Absent(call.args.message)
        /\ Untouched

\* C8: a permitted Message whose fields for the formal parameters are all
\* present, be they empty or zero, is bound: it does not fail with
\* SyntaxError.
C8_ZeroIsBound ==
    (/\ call.op = "execute_message_contents"
     /\ Permitted(call.args.message)
     /\ Absent(call.args.message) = {}) =>
        call.ret.type # "SyntaxError"

-----------------------------------------------------------------------------
(* Two components: A connects to B and sends it messages, B runs *)

\* Component a (A) lets the context "admin" connect; component b (B) has
\* every parameter at its default. Both permit every operation.
ConnectComponents ==
    DefaultComponent(
        Component(NoComponents, "a", "A", Function("critAdmin"),
                  Function("critTrue"), TRUE, TRUE, None,
                  Function("alwaysFalse")),
        "b", "B")

EntityNames == {Str("A"), Str("B"), Str("C")}

\* The disconnection criteria A is given in turn.
Criteria == {Function("critTrue"), Function("critAdmin")}

\* The messages A builds for B: get of x or of y.
GetOf(key) ==
    Message(0, Str("A"), Str("get"), Str("admin"), 1,
            [key |-> key, context |-> Str("admin")])

InitConnect == Constructed(ConnectComponents)

NextConnect ==
    \/ \E entity \in EntityNames, context \in Contexts :
          ConnectEntity("a", entity, context)
    \/ \E entity \in EntityNames, context \in Contexts :
          DisconnectEntity("a", entity, context)
    \/ \E criteria \in Criteria : ModifyDisconnectionCriteria("a", criteria)
    \/ \E entity \in EntityNames, key \in Keys :
          MessageEntity("a", entity, GetOf(key))
    \/ \E key \in Keys, value \in Values :
          Add("b", key, Function("alwaysTrue"), Function("alwaysTrue"),
              False, value)
    \/ \E key \in Keys, pos \in 1..(MaxQueue + 1) :
          /\ Len(messages["b"]) < MaxQueue
          /\ PushMessage("b", GetOf(key), pos)
    \/ Run("b")

SpecConnect == InitConnect /\ [][NextConnect]_vars

\* C10: connect_entity(name, ctx) succeeds, and name is then connected,
\* exactly when name is in the directory and connection_criteria(name, ctx)
\* is true; otherwise it returns an error and the connected set is as it
\* was.
C10_ConnectIff ==
    call.op = "connect_entity" =>
        LET entity == call.args.entity
            criteria == Call(call.before.connection_criteria[call.self],
                             <<entity, call.args.context>>)
        IN  IF entity \in DOMAIN call.before.entities
               /\ ~criteria.raised /\ Truthy(criteria.ret)
            THEN /\ ~call.raised /\ call.ret = None
                 /\ entity \in Range(connected_entities[call.self])
            ELSE /\ ~call.raised
                 /\ call.ret \in {PermissionError("Criteria is not satisfied"),
                                  KeyError("Entity does not exist")}
                 /\ Untouched

\* C9: end to end. A.connect_entity("B", ctx) succeeds; A.message_entity
\* ("B", m) then puts m, a get of x, in B's queue; and B's run() on m
\* returns KeyError when B has no register x and the value of x when it has.
C9_EndToEnd ==
    /\ (/\ call.op = "connect_entity" /\ call.self = "a"
        /\ call.args = [entity |-> Str("B"), context |-> Str("admin")]) =>
           /\ ~call.raised /\ call.ret = None
           /\ Str("B") \in Range(connected_entities["a"])
    /\ (/\ call.op = "message_entity" /\ call.self = "a"
        /\ call.args.entity = Str("B")
        /\ Str("B") \in Range(call.before.connected_entities["a"])) =>
           /\ ~call.raised /\ call.ret = None
           /\ call.args.message \in Range(messages["b"])
    /\ (/\ call.op = "run" /\ call.self = "b"
        /\ call.before.messages["b"] # <<>>
        /\ Head(call.before.messages["b"]) = GetOf(Str("x"))) =>
           /\ ~call.raised
           /\ call.ret = IF Str("x") \in DOMAIN call.before.registers["b"]
                         THEN call.before.registers["b"][Str("x")]
                         ELSE KeyError("Register does not exist")

\* C11: disconnect_entity(name, ctx) succeeds exactly when
\* disconnection_criteria(name, ctx) is true, name is in the directory and
\* name is connected, and name is then no longer connected; otherwise it
\* returns CriteriaNotSatisfied, EntityNotFound or NotConnected and changes
\* nothing. message_entity to a name of the directory that is not connected
\* fails with NotConnected.
C11_DisconnectIff ==
    /\ call.op = "disconnect_entity" =>
           LET entity == call.args.entity
               criteria ==
                   Call(call.before.disconnection_criteria[call.self],
                        <<entity, call.args.context>>)
           IN  IF /\ ~criteria.raised /\ Truthy(criteria.ret)
                  /\ entity \in DOMAIN call.before.entities
                  /\ entity \in Range(call.before.connected_entities[call.self])
               THEN /\ ~call.raised /\ call.ret = None
                    /\ entity \notin Range(connected_entities[call.self])
               ELSE /\ ~call.raised
                    /\ call.ret \in
                          {PermissionError("Criteria is not satisfied"),
                           KeyError("Entity does not exist"),
                           KeyError("Entity is not connected")}
                    /\ Untouched
    /\ (/\ call.op = "message_entity"
        /\ call.args.entity \in DOMAIN call.before.entities
        /\ call.args.entity \notin
               Range(call.before.connected_entities[call.self])) =>
           /\ ~call.raised
           /\ call.ret = ConnectionError("Entity is not connected")

\* C12: in every reachable state every name in the connected set of a
\* component is a name of the directory.
C12_ConnectedInDirectory ==
    \A c \in DOMAIN connected_entities :
        Range(connected_entities[c]) \subseteq DOMAIN entities

\* connect_entity has been called, with its criteria satisfied, on a name
\* that is not in the directory.
C12_Witness ==
    /\ call.op = "connect_entity"
    /\ call.args.context = Str("admin")
    /\ call.args.entity \notin DOMAIN entities
    /\ Range(connected_entities[call.self]) \subseteq DOMAIN entities

\* C13: message_entity(name, m) puts m in the queue of the component
\* registered under name exactly when name is in the directory and in the
\* sender's connected set; otherwise it fails with EntityNotFound (checked
\* first) or NotConnected and no queue changes.
C13_DeliverIff ==
    call.op = "message_entity" =>
        LET entity == call.args.entity
        IN  IF entity \notin DOMAIN call.before.entities
            THEN /\ ~call.raised
                 /\ call.ret = ConnectionError("Entity does not exist")
                 /\ Untouched
            ELSE IF entity \notin
                        Range(call.before.connected_entities[call.self])
            THEN /\ ~call.raised
                 /\ call.ret = ConnectionError("Entity is not connected")
                 /\ Untouched
            ELSE /\ ~call.raised
                 /\ call.args.message \in
                        Range(messages[call.before.entities[entity]])

-----------------------------------------------------------------------------
(* The permission table, from the table given at construction on *)

\* The api_accessibility tables a component is built with: none, empty,
\* partial, full, and partial or full with a key that is no operation.
PartialTable == [func \in {Str("get")} |-> Function("isAdmin")]
ExtraTable ==
    [func \in {Str("get"), Str("delete"), Str("halt")} |->
        Function("isAdmin")]
FullExtraTable ==
    [func \in exec_list \cup {Str("halt")} |->
        IF func \in exec_list THEN AdminTable[func] ELSE Function("isAdmin")]
Tables ==
    <<None, EmptyDict, PartialTable, AdminTable, ExtraTable, FullExtraTable>>

\* The operation names modify_api_permission is called with.
Operations == {Str("get"), Str("run"), Str("halt")}

InitPermissions ==
    \E i \in DOMAIN Tables :
        Constructed(Component(NoComponents, "a", "A", Function("critTrue"),
                              Function("critTrue"), TRUE, TRUE,
                              Tables[i], Function("isAdmin")))

NextPermissions ==
    \E key \in Operations, value \in Predicates, context \in Contexts :
        ModifyApiPermission("a", key, value, context)

SpecPermissions == InitPermissions /\ [][NextPermissions]_vars

\* C20: in every reachable state, from construction on and after any
\* sequence of modify_api_permission calls, the key set of a component's
\* permission table is the set of operation names it exposes, whatever
\* table it was built with.
C20_TableKeys ==
    \A c \in DOMAIN api_permissions : DOMAIN api_permissions[c] = exec_list

\* A component built with a partial table, whose missing entries were
\* filled in, after modify_api_permission replaced one of them.
C20_Witness ==
    /\ call.op = "modify_api_permission" /\ call.ret = None
    /\ call.args.key = Str("run")
    /\ call.before.api_permissions["a"][Str("run")] = True
    /\ api_permissions["a"][Str("run")] = call.args.value
    /\ api_permissions["a"][Str("add")] = True

-----------------------------------------------------------------------------
(* Messages in flight while the permission table changes *)

\* Component a, built with the partial table (get is for "admin" only, no
\* other operation is named), whose api_mutable lets every context change
\* the table, and to which the register x = 42 was added.
InFlightComponent ==
    add(Component(NoComponents, "a", "A", Function("critTrue"),
                  Function("critTrue"), TRUE, TRUE, PartialTable,
                  Function("alwaysTrue")),
        "a", Str("x"), Function("alwaysTrue"), Function("alwaysTrue"),
        False, Int42).s

\* A get of x asked for by "guest"; the Message object built while get was
\* permitted to "guest" has identity 1, the one built while it was not has
\* identity 2.
GetAsGuest(id) ==
    Message(id, Str("B"), Str("get"), Str("guest"), 1,
            [key |-> Str("x"), context |-> Str("admin")])

\* A delete of x: delete is not named in the table a was built with.
DeleteAsGuest ==
    Message(0, Str("B"), Str("delete"), Str("guest"), 1,
            [key |-> Str("x"), context |-> Str("admin")])

\* The permission predicate of the message's operation, as the table of a
\* now stands, is true on the message's func_context.
PermittedNow(message) ==
    LET p == Call(api_permissions["a"][message.func],
                  <<message.func_context>>)
    IN  ~p.raised /\ Truthy(p.ret)

\* A sender pushes a get built in the present state of the table.
PushGet(pos) ==
    /\ Len(messages["a"]) < MaxQueue
    /\ PushMessage("a",
                   GetAsGuest(IF PermittedNow(GetAsGuest(0)) THEN 1 ELSE 2),
                   pos)

InitInFlight == Constructed(InFlightComponent)

NextInFlight ==
    \/ \E pos \in 1..(MaxQueue + 1) : PushGet(pos)
    \/ \E pos \in 1..(MaxQueue + 1) :
          /\ Len(messages["a"]) < MaxQueue
          /\ PushMessage("a", DeleteAsGuest, pos)
    \/ \E value \in Predicates, context \in Contexts :
          ModifyApiPermission("a", Str("get"), value, context)
    \/ ExecuteMessageContents("a", DeleteAsGuest)
    \/ Run("a")

SpecInFlight == InitInFlight /\ [][NextInFlight]_vars

\* The Message the last call dispatched, if it dispatched one.
Dispatching ==
    \/ call.op = "execute_message_contents"
    \/ call.op = "run" /\ call.before.messages[call.self] # <<>>

Dispatched ==
    IF call.op = "run" THEN Head(call.before.messages[call.self])
    ELSE call.args.message

\* C21: an exposed operation missing from the table the component was built
\* with (its entry is the one __init__ filled in) is always permitted: the
\* dispatch of a Message for it passes the permission check, whatever the
\* func_context, and does not fail there.
C21_MissingPermitted ==
    (/\ Dispatching
     /\ Dispatched.func \in exec_list
     /\ call.before.api_permissions[call.self][Dispatched.func] = True) =>
        /\ ~call.raised
        /\ call.ret # PermissionError("Function not executable")

\* C27: the permission predicate is evaluated when run() dispatches the
\* Message, not when it was pushed: a get pushed while permitted and
\* dispatched when the predicate is false is rejected with PermissionDenied
\* and x is left alone, and a get pushed while refused and dispatched when
\* the predicate is true is executed.
C27_CheckedAtDispatch ==
    (/\ call.op = "run" /\ call.before.messages[call.self] # <<>>
     /\ Dispatched.func = Str("get")) =>
        LET p == Call(call.before.api_permissions[call.self][Str("get")],
                      <<Dispatched.func_context>>)
        IN  /\ ~call.raised
            /\ (Dispatched.id = 1 /\ ~Truthy(p.ret)) =>
                   /\ call.ret = PermissionError("Function not executable")
                   /\ registers = call.before.registers
            /\ (Dispatched.id = 2 /\ Truthy(p.ret)) =>
                   call.ret = get(call.before, call.self, Dispatched.key,
                                  Dispatched.context).ret

\* run() rejected a get that was pushed while get was permitted to "guest".
C27_Witness ==
    /\ call.op = "run" /\ call.before.messages[call.self] # <<>>
    /\ Dispatched.func = Str("get") /\ Dispatched.id = 1
    /\ call.ret = PermissionError("Function not executable")

-----------------------------------------------------------------------------
(* Further properties of the specifications above *)

\* C22: modify_api_permission(op, p, ctx) replaces the predicate of op only
\* if op is in the permission table and api_mutable(ctx) is true, and then
\* changes no other entry; otherwise it returns OperationNotFound (checked
\* first) or PermissionLocked and leaves the table as it was.
C22_ModifyApiPermission ==
    call.op = "modify_api_permission" =>
        /\ ~call.raised
        /\ IF call.args.key \notin
                 DOMAIN call.before.api_permissions[call.self]
           THEN /\ call.ret = KeyError("Api function is not available")
                /\ State = call.before
           ELSE IF ~Truthy(Apply(call.before.api_mutable[call.self].val,
                                 <<call.args.context>>))
           THEN /\ call.ret = PermissionError(
                      "Api accessibility cannot be modified with this context")
                /\ State = call.before
           ELSE /\ call.ret = None
                /\ State =
                      [call.before EXCEPT
                          !.api_permissions[call.self][call.args.key] =
                              call.args.value]

\* modify_api_permission replaced the predicate of get by another one, in a
\* table whose other entries are not all alike.
C22_Witness ==
    /\ call.op = "modify_api_permission" /\ call.ret = None
    /\ call.args.key = Str("get")
    /\ call.before.api_permissions["a"][Str("get")] # call.args.value
    /\ api_permissions["a"][Str("get")] = call.args.value
    /\ api_permissions["a"][Str("delete")] = Function("isAdmin")
    /\ api_permissions["a"][Str("run")] # Function("isAdmin")

\* C23: every call of an operation ends by returning a success result or a
\* typed error, never by raising.
C23_NeverRaises == ~call.raised

\* C24: the Message fields are a superset of the operands of every exposed
\* operation: every formal parameter of the operation a Message names is a
\* Message field, so that a binding failure of a permitted dispatch names a
\* field the Message left out.
C24_FieldsCoverOperands ==
    (/\ call.op = "execute_message_contents"
     /\ call.args.message.func \in exec_list) =>
        /\ Range(Parameters(call.args.message.func.val)) \subseteq
               MessageFields
        /\ (/\ Permitted(call.args.message) /\ ~call.raised
            /\ call.ret.type = "SyntaxError") =>
               call.ret.arg_name \in MessageFields

\* C28: delete on an existing register that is not immutable removes it from
\* all four maps for every context, whatever its mutator says, and changes
\* nothing else.
C28_DeleteUngated ==
    (/\ call.op = "delete"
     /\ Exists(call.before, call.self, call.args.key)
     /\ ~Truthy(call.before.immutables[call.self][call.args.key])) =>
        /\ ~call.raised /\ call.ret = None
        /\ ~Exists(State, call.self, call.args.key)
        /\ State =
              [call.before EXCEPT
                  !.registers[call.self] = Del(@, call.args.key),
                  !.accessors[call.self] = Del(@, call.args.key),
                  !.mutators[call.self] = Del(@, call.args.key),
                  !.immutables[call.self] = Del(@, call.args.key)]

\* delete removed a register that is not immutable on a context on which its
\* mutator is false.
C28_Witness ==
    /\ call.op = "delete" /\ call.ret = None
    /\ Exists(call.before, call.self, call.args.key)
    /\ ~Truthy(call.before.immutables[call.self][call.args.key])
    /\ call.before.mutators[call.self][call.args.key] = Function("isAdmin")
    /\ call.args.context = Str("guest")
    /\ ~Exists(State, call.self, call.args.key)

-----------------------------------------------------------------------------
(* The directory while components are being constructed *)

\* The objects that construction creates and the names of their classes.
Objects == {"a", "b", "c"}
ClassNames == {"A", "B"}

\* self = Class(message_key_func), the class being called name: a new
\* object, built with the default parameters.
New(self, name) ==
    /\ self \notin DOMAIN names
    /\ Do("__init__", self, [name |-> name],
          Return(DefaultComponent(State, self, name), None))

InitDirectory == Constructed(NoComponents)

NextDirectory ==
    \/ \E self \in Objects, name \in ClassNames : New(self, name)
    \/ \E self \in Objects, value \in Values :
          /\ self \in DOMAIN names
          /\ Add(self, Str("x"), Function("alwaysTrue"),
                 Function("alwaysTrue"), False, value)
    \/ \E self \in Objects :
          /\ self \in DOMAIN names
          /\ Get(self, Str("x"), Str("admin"))

SpecDirectory == InitDirectory /\ [][NextDirectory]_vars

\* C25: the directory is write-once per name: constructing a second
\* component under a name that is already registered fails, and the
\* directory still maps that name to the first component.
C25_WriteOnce ==
    (/\ call.op = "__init__" /\ call.self \in Objects
     /\ Str(call.args.name) \in DOMAIN call.before.entities) =>
        /\ call.raised \/ call.ret # None
        /\ entities[Str(call.args.name)] =
               call.before.entities[Str(call.args.name)]

=============================================================================
